---- MODULE Spec2Model ----
(***************************************************************************)
(* Model of gistapi: the /api/v1/search handler, the paginated gist        *)
(* enumerator gists_for_user, the file fetcher                             *)
(* extract_gist_files_content, the request wrapper _make_request and the   *)
(* pattern matcher regex_match.  The remote service (the metadata and the  *)
(* raw-content endpoints) is the environment: every response is chosen by  *)
(* it at the moment the request is issued.                                 *)
(*                                                                         *)
(* Python values: an optional value is a sequence of length <= 1 (None is  *)
(* <<>>), a str is a sequence of one-character strings, a dict is a        *)
(* function from its keys.                                                 *)
(***************************************************************************)
EXTENDS Naturals, Sequences, FiniteSets

(* ------------------------------ bounds -------------------------------- *)
\* pages the remote listing may have
MaxPages == 2
\* gist records in the whole listing
MaxGists == 2
\* file entries of one gist
MaxFiles == 2
\* characters of a text handed to regex_match
MaxLen == 3
\* atoms of a pattern handed to regex_match
MaxAtoms == 2
\* calls of regex_match with the same arguments
MaxCalls == 2

(* ----------------------------- constants ------------------------------ *)
GISTS_PAGE_LIMIT == 10

None == <<>>
Some(x) == <<x>>

(* --------------------------- request inputs --------------------------- *)
\* values the posted JSON may hold under "username" and "pattern"
PyNone == [type |-> "NoneType", val |-> <<>>]
PyStr(s) == [type |-> "str", val |-> s]
PyInt(s) == [type |-> "int", val |-> s]

PostedUsernames ==
    {PyNone, PyStr(<<>>), PyStr(<<" ">>), PyStr(<<" ", "u">>), PyInt(<<"7">>)}
PostedPatterns ==
    {PyNone, PyStr(<<>>), PyStr(<<"(">>), PyStr(<<"^", "a">>), PyStr(<<"b">>)}

(* ------------------------- the remote service ------------------------- *)
GistIds == {"g1", "g2"}
\* texts the raw-content endpoint may serve
Contents == {<<"a">>, <<"b", "\n", "a">>}
\* `message` values of an error body
Messages == {"Not Found"}

RawUrl(gist_id, i) == [kind |-> "raw", gist |-> gist_id, file |-> i]
\* the files mapping of a gist with n files, in listing order
Files(gist_id, n) == [i \in 1..n |-> [raw_url |-> RawUrl(gist_id, i)]]
\* gist records: with a files mapping of 0..MaxFiles entries, or without one
Gists ==
    {[id |-> g, files |-> Files(g, n)] : g \in GistIds, n \in 0..MaxFiles}
    \cup {[id |-> g] : g \in GistIds}

SeqsUpTo(S, n) == UNION {[1..k -> S] : k \in 0..n}

\* bodies of a non-success response
ErrorBodies ==
    {[parse |-> "error"], [parse |-> "array"]}
    \cup {[parse |-> "object", value |-> [message |-> m]] : m \in Messages}
    \cup {[parse |-> "object", value |-> <<>>]}
\* bodies of a successful metadata response, of at most n gist records
PageBodies(n) ==
    {[parse |-> "error"], [parse |-> "number"]}
    \cup {[parse |-> "array", value |-> items] : items \in SeqsUpTo(Gists, n)}

TransportFailure == [kind |-> "exception"]
ErrorResponses == {[kind |-> "http", ok |-> FALSE, body |-> b] : b \in ErrorBodies}

\* the "next" link the listing carries on the page `url` asks for
NextLink(url) == [url EXCEPT !.page = @ + 1]
\* the responses to the request for `url` when the pages before it listed
\* `listed` gists
PageResponses(url, listed) ==
    {TransportFailure} \cup ErrorResponses
    \cup {[kind |-> "http", ok |-> TRUE, body |-> b, links |-> l] :
            b \in PageBodies(MaxGists - listed),
            l \in {None} \cup (IF url.page < MaxPages THEN {Some(NextLink(url))} ELSE {})}
FileResponses ==
    {TransportFailure} \cup ErrorResponses
    \cup {[kind |-> "http", ok |-> TRUE, text |-> c] : c \in Contents}

(* ----------------------------- exceptions ----------------------------- *)
Exception(type, bases, description) ==
    [type |-> type, bases |-> bases, description |-> description]
GistError(description) ==
    Exception("GistError", {"GistError", "APIError", "HTTPException"}, description)
ValidationError(description) ==
    Exception("ValidationError", {"ValidationError", "APIError", "HTTPException"}, description)
RequestException ==
    Exception("RequestException", {"RequestException"}, None)
AttributeError == Exception("AttributeError", {"AttributeError"}, None)
TypeError == Exception("TypeError", {"TypeError"}, None)
RuntimeError ==
    Exception("RuntimeError", {"RuntimeError"}, Some("generator raised StopIteration"))
\* what response.json() raises on a body that is not JSON: a RequestException
\* for the requests releases that derive it from one, a plain ValueError before
JSONDecodeErrors ==
    {Exception("JSONDecodeError", {"JSONDecodeError", "ValueError"} \cup b, None) :
        b \in {{}, {"RequestException"}}}

\* the `code` class attributes of APIError and ValidationError
APIError_code == 500
ValidationError_code == 400

\* e.code of an APIError
code(e) == IF "ValidationError" \in e.bases THEN ValidationError_code ELSE APIError_code

\* str(e), as its parts: GistError.__str__, and for a ValidationError the
\* inherited HTTPException.__str__ ('<code> <name>: <description>')
str(e) ==
    IF "GistError" \in e.bases THEN <<"Github gists error: ", e.description>>
    ELSE <<code(e), "Bad Request", e.description>>

\* the error handler registered for APIError: the body and the status code
handle_exception(e) == [status |-> "error", message |-> str(e), code |-> code(e)]

Raise(exc) == [raised |-> TRUE, exc |-> exc]
Return(v) == [raised |-> FALSE, value |-> v]

(* --------------------------- pure functions --------------------------- *)
Whitespace == {" ", "\t", "\n"}

RECURSIVE lstrip(_)
lstrip(s) == IF s # <<>> /\ Head(s) \in Whitespace THEN lstrip(Tail(s)) ELSE s

RECURSIVE rstrip(_)
rstrip(s) ==
    IF s # <<>> /\ s[Len(s)] \in Whitespace THEN rstrip(SubSeq(s, 1, Len(s) - 1)) ELSE s

\* str.strip()
strip(s) == rstrip(lstrip(s))

\* Python truth value of a posted value: None and the empty str are false
Truthy(v) == v.type # "NoneType" /\ v.val # <<>>

ValueError(description) == Exception("ValueError", {"ValueError"}, Some(description))

validate_username(username) ==
    IF ~Truthy(username) THEN Raise(ValueError("Username field can not be empty"))
    ELSE IF username.type # "str" THEN Raise(ValueError("Invalid username type"))
    ELSE Return(strip(username.val))

\* re.compile succeeds: the patterns drawn here hold no group, so a
\* parenthesis in one is an unbalanced parenthesis
re_compile(p) == p.type = "str" /\ \A i \in DOMAIN p.val : p.val[i] \notin {"(", ")"}

\* the pattern is not compiled: only its emptiness is checked
validate_pattern_no_compile(pattern) ==
    IF ~Truthy(pattern) THEN Raise(ValueError("Pattern field can not be empty"))
    ELSE Return(pattern.val)

validate_pattern(pattern) ==
    IF ~Truthy(pattern) THEN Raise(ValueError("Pattern field can not be empty"))
    ELSE IF ~re_compile(pattern) THEN Raise(ValueError("Invalid pattern"))
    ELSE Return(pattern.val)

\* the pattern's atoms from the j-th on match content from position i on;
\* "^" is a line start (re.MULTILINE), "." any character but a newline
RECURSIVE MatchAt(_, _, _, _)
MatchAt(content, pattern, i, j) ==
    IF j > Len(pattern) THEN TRUE
    ELSE IF pattern[j] = "^"
         THEN (i = 1 \/ content[i - 1] = "\n") /\ MatchAt(content, pattern, i, j + 1)
    ELSE /\ i <= Len(content)
         /\ IF pattern[j] = "." THEN content[i] # "\n" ELSE content[i] = pattern[j]
         /\ MatchAt(content, pattern, i + 1, j + 1)

\* re.search: a match starting at any position
regex_search(content, pattern) ==
    \E i \in 1..(Len(content) + 1) : MatchAt(content, pattern, i, 1)

\* bool(re.match(pattern, content, re.MULTILINE)): a match starting at the
\* first character
regex_match(content, pattern) == MatchAt(content, pattern, 1, 1)

get_gists_url(username) ==
    [kind |-> "gists", user |-> username, page |-> 1, per_page |-> GISTS_PAGE_LIMIT]

\* the f-string 'https://gist.github.com/{username}/{gist_id}', as its parts
build_gist_human_url(username, gist_id) ==
    <<"https://gist.github.com", username, gist_id>>

\* the ids of a list of gist records
Ids(items) == [i \in DOMAIN items |-> items[i].id]

\* the concatenation of a sequence of sequences
RECURSIVE Concat(_)
Concat(ss) == IF ss = <<>> THEN <<>> ELSE Head(ss) \o Concat(Tail(ss))

\* dict.get(key) of a parsed JSON object
DictGet(obj, key) == IF key \in DOMAIN obj THEN Some(obj[key]) ELSE None

\* requests.get answered by `response`, then the status check
_make_request(response) ==
    IF response.kind = "exception" THEN Raise(RequestException)
    ELSE IF ~response.ok
         THEN \* error_obj stays {} when the body is not JSON; .get is taken
              \* of whatever the body parsed to
              IF response.body.parse = "error" THEN Raise(GistError(DictGet(<<>>, "message")))
              ELSE IF response.body.parse = "object"
                   THEN Raise(GistError(DictGet(response.body.value, "message")))
              ELSE Raise(AttributeError)
    ELSE Return(response)

\* a default that is not empty: a gist without a files entry gets one file
gist_files_default_file(gist) ==
    IF "files" \in DOMAIN gist THEN gist.files ELSE Files(gist.id, 1)

\* gist.get('files', {}).values()
gist_files(gist) == IF "files" \in DOMAIN gist THEN gist.files ELSE <<>>

\* the except clause of search: a requests.RequestException becomes a GistError,
\* any other exception passes through
search_except(exc) ==
    IF "RequestException" \in exc.bases
    THEN GistError(Some("Something went wrong with the gist request"))
    ELSE exc

\* the files loop without its break: a match does not end it
next_file_no_break(matched, file_idx, n) ==
    IF file_idx < n THEN Some(file_idx + 1) ELSE None

\* the files loop of search after one file: None leaves the loop (break on a
\* match, or the files are exhausted), Some(i) goes on with the i-th file
next_file(matched, file_idx, n) ==
    IF matched THEN None ELSE IF file_idx < n THEN Some(file_idx + 1) ELSE None

\* matches = [url]: the list is replaced
record_match_overwrite(matches, url) == <<url>>

\* matches.insert(0, url): newest first
record_match_front(matches, url) == <<url>> \o matches

\* matches.append(url)
record_match(matches, url) == Append(matches, url)

(* ------------------------------- state -------------------------------- *)
VARIABLES
    post_username,          \* post_data.get('username')
    post_pattern,           \* post_data.get('pattern')
    pc,                     \* where search stands
    gen,                    \* where the generator gists_for_user stands
    username, pattern,      \* the validated inputs
    next_page_url,          \* gists_for_user's cursor
    data,                   \* the items of the current page not yet yielded
    links,                  \* response.links['next']['url'] of the current page
    gist,                   \* the gist search is working on
    file_idx,               \* the position of extract_gist_files_content in it
    matches,
    result,                 \* the body search returns
    error,                  \* the exception search ends with
    \* the history of the search
    page_requests,          \* the URLs requested from the metadata endpoint
    received_pages,         \* of each page received: its items' ids, its "next" link
    malformed_body,         \* a successful metadata response held no JSON array
    enumerated,             \* the gists yielded, and whether a file of each matched
    file_requests,          \* the raw-content URLs requested for the current gist
    contents,               \* the texts received for the current gist
    requested,              \* the raw-content URLs requested
    repeated,               \* a raw-content URL was requested a second time
    failed_response,        \* the first response that failed a request
    requests_after_failure, \* requests issued after that response
    \* regex_match called on its own
    match_content,          \* its argument content
    match_pattern,          \* its argument pattern
    match_returns,          \* what its successive calls returned
    \* invocations of search running at the same time
    remote,                 \* the response the remote service gives to each URL
    generator_stop,         \* the interpreter turns StopIteration in a generator
                            \* into a RuntimeError
    frames,                 \* of each invocation: its locals and where it stands
    lists                   \* the list objects `matches` is bound to

search_vars == <<post_username, post_pattern, username, pattern>>
gen_vars == <<gen, next_page_url, data, links>>
file_vars == <<gist, file_idx, file_requests, contents>>
out_vars == <<matches, result, error>>
page_hist == <<page_requests, received_pages, malformed_body>>
file_hist == <<requested, repeated>>
vars == <<post_username, post_pattern, pc, gen, username, pattern, next_page_url,
          data, links, gist, file_idx, matches, result, error, page_requests,
          received_pages, malformed_body, enumerated, file_requests, contents,
          requested, repeated,
          failed_response, requests_after_failure,
          match_content, match_pattern, match_returns,
          remote, generator_stop, frames, lists>>
\* the variables search leaves alone
match_vars == <<match_content, match_pattern, match_returns>>
conc_vars == <<remote, generator_stop, frames, lists>>
aside_vars == <<match_vars, conc_vars>>

\* regex_match is not called on its own
NoMatchCall == match_content = <<>> /\ match_pattern = <<>> /\ match_returns = <<>>

\* no invocations run side by side
NoInvocations == remote = <<>> /\ generator_stop = FALSE /\ frames = <<>> /\ lists = <<>>

Init ==
    /\ post_username \in PostedUsernames
    /\ post_pattern \in PostedPatterns
    /\ pc = "request"
    /\ gen = "none"
    /\ username = <<>> /\ pattern = <<>>
    /\ next_page_url = None /\ data = <<>> /\ links = None
    /\ gist = None /\ file_idx = 0
    /\ matches = <<>> /\ result = None /\ error = None
    /\ page_requests = <<>> /\ received_pages = <<>> /\ malformed_body = FALSE
    /\ enumerated = <<>> /\ file_requests = <<>> /\ contents = <<>>
    /\ requested = {} /\ repeated = FALSE
    /\ failed_response = None /\ requests_after_failure = 0
    /\ NoMatchCall
    /\ NoInvocations

\* the items received so far, page after page
Received == Concat([k \in DOMAIN received_pages |-> received_pages[k].items])

\* the exception is swallowed and the loop over the gists goes on
Fail_and_go_on(exc) ==
    pc' = "for_gists" /\ error' = Some(exc) /\ UNCHANGED <<matches, result>>

\* search ends with the exception exc
Fail(exc) == pc' = "raised" /\ error' = Some(exc) /\ UNCHANGED <<matches, result>>

\* a request is issued; `failed` tells whether its response fails it
Request(response, failed) ==
    /\ requests_after_failure' =
           IF failed_response # None THEN requests_after_failure + 1
           ELSE requests_after_failure
    /\ failed_response' =
           IF failed /\ failed_response = None THEN Some(response) ELSE failed_response

(* ------------------------------ actions ------------------------------- *)
\* search, from the posted data to the creation of the generator
search_validate ==
    /\ pc = "request"
    /\ LET u == validate_username(post_username)
           p == validate_pattern(post_pattern)
       IN  IF u.raised
           THEN Fail(ValidationError(u.exc.description)) /\ UNCHANGED <<username, pattern, gen>>
           ELSE IF p.raised
           THEN Fail(ValidationError(p.exc.description)) /\ UNCHANGED <<username, pattern, gen>>
           ELSE /\ username' = u.value
                /\ pattern' = p.value
                /\ gen' = "created"
                /\ pc' = "for_gists"
                /\ UNCHANGED out_vars
    /\ UNCHANGED <<post_username, post_pattern, next_page_url, data, links, file_vars,
                   page_hist, enumerated, file_hist, failed_response,
                   requests_after_failure>>
    /\ UNCHANGED aside_vars

\* the cursor is not followed: every request is for the initial URL
page_url_initial == get_gists_url(username)

\* the URL the generator requests next: the initial one when it starts, the
\* cursor afterwards
page_url == IF gen = "created" THEN get_gists_url(username) ELSE next_page_url[1]

\* gists_for_user resumed by search's for loop: one page is requested
gists_fetch_page ==
    /\ pc = "for_gists"
    /\ gen \in {"created", "loop"}
    /\ \E response \in PageResponses(page_url, Len(Received)) :
         LET r == _make_request(response)
         IN  /\ page_requests' = Append(page_requests, page_url)
             /\ next_page_url' = Some(page_url)
             /\ Request(response, r.raised)
             /\ IF r.raised
                THEN /\ Fail(search_except(r.exc))
                     /\ UNCHANGED <<gen, data, links, received_pages, malformed_body>>
                ELSE \/ /\ response.body.parse = "error"
                        /\ \E e \in JSONDecodeErrors : Fail(search_except(e))
                        /\ malformed_body' = TRUE
                        /\ UNCHANGED <<gen, data, links, received_pages>>
                     \/ /\ response.body.parse = "number"
                        /\ Fail(TypeError)
                        /\ malformed_body' = TRUE
                        /\ UNCHANGED <<gen, data, links, received_pages>>
                     \/ /\ response.body.parse = "array"
                        /\ data' = response.body.value
                        /\ links' = response.links
                        /\ received_pages' =
                               Append(received_pages,
                                      [items |-> Ids(response.body.value),
                                       next |-> response.links])
                        /\ malformed_body' = malformed_body
                        /\ gen' = "page"
                        /\ UNCHANGED <<pc, out_vars>>
    /\ UNCHANGED <<search_vars, file_vars, enumerated, file_hist>>
    /\ UNCHANGED aside_vars

\* `yield from data` hands the next gist to search, which starts on its files
gists_yield ==
    /\ pc = "for_gists"
    /\ gen = "page"
    /\ data # <<>>
    /\ gist' = Some(Head(data))
    /\ data' = Tail(data)
    /\ enumerated' = Append(enumerated, [id |-> Head(data).id, hit |-> FALSE])
    /\ file_requests' = <<>>
    /\ contents' = <<>>
    /\ file_idx' = 1
    /\ pc' = IF gist_files(Head(data)) = <<>> THEN "for_gists" ELSE "for_files"
    /\ UNCHANGED <<search_vars, gen, next_page_url, links, out_vars, page_hist,
                   file_hist, failed_response, requests_after_failure>>
    /\ UNCHANGED aside_vars

\* the "next" link is followed as soon as the page is in, whatever is left of
\* its items and wherever search stands
gists_next_link_eager ==
    /\ gen = "page"
    /\ pc \in {"for_gists", "for_files"}
    /\ links # None
    /\ next_page_url' = links
    /\ gen' = "loop"
    /\ pc' = "for_gists"
    /\ UNCHANGED <<search_vars, data, links, file_vars, out_vars, page_hist,
                   enumerated, file_hist, failed_response, requests_after_failure>>
    /\ UNCHANGED aside_vars

\* the page is exhausted and carries a "next" link: the loop goes on with it
gists_next_link ==
    /\ pc = "for_gists"
    /\ gen = "page"
    /\ data = <<>>
    /\ links # None
    /\ next_page_url' = links
    /\ gen' = "loop"
    /\ UNCHANGED <<search_vars, pc, data, links, file_vars, out_vars, page_hist,
                   enumerated, file_hist, failed_response, requests_after_failure>>
    /\ UNCHANGED aside_vars

\* search builds its result from the matches
search_result == [status |-> "success", username |-> username, pattern |-> pattern,
                  matches |-> matches]

\* the page is exhausted and carries no "next" link, and the missing link is
\* passed over: the loop goes on with the URL it has
gists_stop_iteration_pass ==
    /\ pc = "for_gists"
    /\ gen = "page"
    /\ data = <<>>
    /\ links = None
    /\ gen' = "loop"
    /\ UNCHANGED <<search_vars, pc, next_page_url, data, links, file_vars, out_vars,
                   page_hist, enumerated, file_hist, failed_response,
                   requests_after_failure>>
    /\ UNCHANGED aside_vars

\* the page is exhausted and carries no "next" link: `raise StopIteration` in
\* the generator body, on an interpreter where that still ends the iteration
\* (before generator_stop became the rule); search's loop ends and it returns
gists_stop_iteration ==
    /\ pc = "for_gists"
    /\ gen = "page"
    /\ data = <<>>
    /\ links = None
    /\ gen' = "closed"
    /\ result' = Some(search_result)
    /\ pc' = "returned"
    /\ UNCHANGED <<search_vars, next_page_url, data, links, file_vars, matches, error,
                   page_hist, enumerated, file_hist, failed_response,
                   requests_after_failure>>
    /\ UNCHANGED aside_vars

\* the same `raise StopIteration` on an interpreter with generator_stop: it
\* leaves the generator as a RuntimeError, which search's except clause does
\* not name
gists_stop_runtime_error ==
    /\ pc = "for_gists"
    /\ gen = "page"
    /\ data = <<>>
    /\ links = None
    /\ gen' = "closed"
    /\ Fail(search_except(RuntimeError))
    /\ UNCHANGED <<search_vars, next_page_url, data, links, file_vars, page_hist,
                   enumerated, file_hist, failed_response, requests_after_failure>>
    /\ UNCHANGED aside_vars

\* extract_gist_files_content resumed by search's inner loop: one file is
\* requested, its text tested, and a match recorded
files_fetch ==
    /\ pc = "for_files"
    /\ LET files == gist_files(gist[1])
           url == files[file_idx].raw_url
       IN  \E response \in FileResponses :
             LET r == _make_request(response)
             IN  /\ file_requests' = Append(file_requests, url)
                 /\ requested' = requested \cup {url}
                 /\ repeated' = (repeated \/ url \in requested)
                 /\ Request(response, r.raised)
                 /\ IF r.raised
                    THEN /\ Fail(search_except(r.exc))
                         /\ UNCHANGED <<file_idx, contents, enumerated>>
                    ELSE LET matched == regex_match(response.text, pattern)
                             next == next_file(matched, file_idx, Len(files))
                         IN  /\ contents' = Append(contents, response.text)
                             /\ matches' =
                                    IF matched
                                    THEN record_match(
                                             matches,
                                             build_gist_human_url(username, gist[1].id))
                                    ELSE matches
                             /\ enumerated' =
                                    IF matched
                                    THEN [enumerated EXCEPT ![Len(enumerated)].hit = TRUE]
                                    ELSE enumerated
                             /\ file_idx' = IF next = None THEN file_idx ELSE next[1]
                             /\ pc' = IF next = None THEN "for_gists" ELSE "for_files"
                             /\ UNCHANGED <<result, error>>
    /\ UNCHANGED <<search_vars, gen_vars, gist, page_hist>>
    /\ UNCHANGED aside_vars

Next ==
    \/ search_validate
    \/ gists_fetch_page
    \/ gists_yield
    \/ gists_next_link
    \/ gists_stop_iteration
    \/ gists_stop_runtime_error
    \/ files_fetch

Spec == Init /\ [][Next]_vars

(* ----------------------- regex_match on its own ----------------------- *)
\* the texts and the patterns regex_match is called with
MatchContents == SeqsUpTo({"a", "b", "\n"}, MaxLen)
MatchPatterns == SeqsUpTo({"a", ".", "^"}, MaxAtoms)

\* no search runs
NoSearch ==
    /\ post_username = PyNone /\ post_pattern = PyNone
    /\ pc = "request" /\ gen = "none"
    /\ username = <<>> /\ pattern = <<>>
    /\ next_page_url = None /\ data = <<>> /\ links = None
    /\ gist = None /\ file_idx = 0
    /\ matches = <<>> /\ result = None /\ error = None
    /\ page_requests = <<>> /\ received_pages = <<>> /\ malformed_body = FALSE
    /\ enumerated = <<>> /\ file_requests = <<>> /\ contents = <<>>
    /\ requested = {} /\ repeated = FALSE
    /\ failed_response = None /\ requests_after_failure = 0

InitMatch ==
    /\ NoSearch
    /\ NoInvocations
    /\ match_content \in MatchContents
    /\ match_pattern \in MatchPatterns
    /\ match_returns = <<>>

\* one call regex_match(content, pattern)
regex_match_call ==
    /\ Len(match_returns) < MaxCalls
    /\ match_returns' = Append(match_returns, regex_match(match_content, match_pattern))
    /\ UNCHANGED <<match_content, match_pattern>>
    /\ UNCHANGED <<search_vars, pc, gen_vars, file_vars, out_vars, page_hist,
                   enumerated, file_hist, failed_response, requests_after_failure>>
    /\ UNCHANGED conc_vars

NextMatch == regex_match_call

SpecMatch == InitMatch /\ [][NextMatch]_vars

(* ---------------- invocations of search side by side ------------------ *)
\* the invocations of search: each runs in a thread of its own
Searches == {"s1", "s2"}

\* the username every invocation is posted
TwoUser == PyStr(<<"u">>)
\* the pattern each invocation may be posted
TwoPatterns(p) == IF p = "s1" THEN {<<"^", "a">>} ELSE {<<"^", "a">>, <<"b">>}

\* the URLs of the remote service: the pages of the user's listing and the
\* raw contents of the files
PageUrls == {[get_gists_url(strip(TwoUser.val)) EXCEPT !.page = k] : k \in 1..MaxPages}
RawUrls == {RawUrl(g, i) : g \in GistIds, i \in 1..MaxFiles}

\* the listing holds one gist a page, each with MaxFiles files
GistOnPage(k) ==
    LET id == IF k % 2 = 1 THEN "g1" ELSE "g2"
    IN  [id |-> id, files |-> Files(id, MaxFiles)]

\* the responses that fail a request
Failures ==
    {TransportFailure}
    \cup {[kind |-> "http", ok |-> FALSE,
           body |-> [parse |-> "object", value |-> [message |-> m]]] : m \in Messages}

\* a remote service with a listing of n pages, where every file reads
\* "b\na" but the file `special`, which reads "a", and where the URL of `bad`
\* is answered with the failure of `bad`
Remote(n, special, bad) ==
    [u \in PageUrls \cup RawUrls |->
        IF bad # None /\ bad[1].url = u THEN bad[1].response
        ELSE IF u.kind = "gists"
        THEN [kind |-> "http", ok |-> TRUE,
              body |-> [parse |-> "array", value |-> <<GistOnPage(u.page)>>],
              links |-> IF u.page < n THEN Some(NextLink(u)) ELSE None]
        ELSE [kind |-> "http", ok |-> TRUE,
              text |-> IF special = Some(u) THEN <<"a">> ELSE <<"b", "\n", "a">>]]

Remotes ==
    {Remote(n, special, bad) :
        n \in 1..MaxPages,
        special \in {None} \cup {Some(u) : u \in RawUrls},
        bad \in {None} \cup {Some([url |-> u, response |-> f]) :
                                u \in PageUrls \cup RawUrls, f \in Failures}}

\* the locals of an invocation posted the pattern pat, before its first step
Frame(pat) ==
    [post_username |-> TwoUser, post_pattern |-> PyStr(pat),
     pc |-> "request", gen |-> "none", username |-> <<>>, pattern |-> <<>>,
     next_page_url |-> None, data |-> <<>>, links |-> None,
     gist |-> None, file_idx |-> 0, result |-> None, error |-> None,
     outstanding |-> <<>>,   \* the requests sent and not yet answered
     yielded |-> 0,          \* the number of gists the generator has yielded
     log |-> <<>>,           \* the requests and the responses, in order
     overlaps |-> FALSE]     \* another invocation was running when it started

\* the single-search variables, which the invocations leave alone
solo_vars == <<search_vars, pc, gen_vars, file_vars, out_vars, page_hist,
               enumerated, file_hist, failed_response, requests_after_failure>>

InitTwo ==
    /\ NoSearch
    /\ NoMatchCall
    /\ remote \in Remotes
    /\ generator_stop \in BOOLEAN
    /\ frames \in {f \in [Searches -> {Frame(pat) : pat \in UNION {TwoPatterns(p) : p \in Searches}}] :
                     \A p \in Searches : f[p].post_pattern.val \in TwoPatterns(p)}
    /\ lists = [p \in Searches |-> <<>>]

\* the invocation has started and not ended
Running(s) == s.pc \notin {"request", "returned", "raised"}

\* an entry of the log
Event(kind, url, s, matched) ==
    [kind |-> kind, url |-> url, gist_no |-> s.yielded, matched |-> matched,
     files |-> IF s.gist = None THEN 0 ELSE Len(gist_files(s.gist[1]))]

\* requests.get returns at once, the response still to come
awaiting_never(s) == FALSE

\* the thread is inside requests.get: it goes on when the response is there
awaiting(s) == s.outstanding # <<>>

\* one list at module level, bound by every invocation
matches_global(p) == "s1"

\* `matches = []` in the body of search: the list of the invocation p
matches_of(p) == p

\* the body search returns, from the locals s and the list m
search_result_of(s, m) ==
    [status |-> "success", username |-> s.username, pattern |-> s.pattern, matches |-> m]

\* the invocation p goes on to the locals t
Step(p, t) ==
    /\ frames' = [frames EXCEPT ![p] = t]
    /\ UNCHANGED <<remote, generator_stop, solo_vars, match_vars>>

\* search, from the posted data to the creation of the generator
search_validate_in(p) ==
    LET s == frames[p]
        u == validate_username(s.post_username)
        pt == validate_pattern(s.post_pattern)
    IN  /\ s.pc = "request"
        /\ IF u.raised \/ pt.raised
           THEN /\ Step(p, [s EXCEPT !.pc = "raised",
                                     !.error = Some(ValidationError(
                                         IF u.raised THEN u.exc.description
                                         ELSE pt.exc.description))])
                /\ UNCHANGED lists
           ELSE /\ Step(p, [s EXCEPT !.username = u.value, !.pattern = pt.value,
                                     !.gen = "created", !.pc = "for_gists",
                                     !.overlaps = \E q \in Searches \ {p} :
                                                     Running(frames[q])])
                /\ lists' = [lists EXCEPT ![matches_of(p)] = <<>>]

\* gists_for_user resumed: requests.get is called with the next page's URL
gists_request_in(p) ==
    LET s == frames[p]
        url == IF s.gen = "created" THEN get_gists_url(s.username) ELSE s.next_page_url[1]
    IN  /\ s.pc = "for_gists"
        /\ s.gen \in {"created", "loop"}
        /\ ~awaiting(s)
        /\ Step(p, [s EXCEPT !.outstanding = Append(@, url),
                             !.next_page_url = Some(url),
                             !.log = Append(@, Event("request", url, s, FALSE))])
        /\ UNCHANGED lists

\* the response to the page request is there: the status check, then the body
gists_response_in(p) ==
    LET s == frames[p]
    IN  /\ s.pc = "for_gists"
        /\ s.outstanding # <<>>
        /\ Head(s.outstanding).kind = "gists"
        /\ LET url == Head(s.outstanding)
               response == remote[url]
               r == _make_request(response)
               t == [s EXCEPT !.outstanding = Tail(@),
                              !.log = Append(@, Event("response", url, s, FALSE))]
           IN  IF r.raised
               THEN Step(p, [t EXCEPT !.pc = "raised",
                                      !.error = Some(search_except(r.exc))])
               ELSE Step(p, [t EXCEPT !.data = response.body.value,
                                      !.links = response.links,
                                      !.gen = "page"])
        /\ UNCHANGED lists

\* `yield from data` hands the next gist to search, which starts on its files
gists_yield_in(p) ==
    LET s == frames[p]
    IN  /\ s.pc = "for_gists"
        /\ s.gen = "page"
        /\ s.data # <<>>
        /\ ~awaiting(s)
        /\ Step(p, [s EXCEPT !.gist = Some(Head(s.data)),
                             !.data = Tail(s.data),
                             !.file_idx = 1,
                             !.yielded = @ + 1,
                             !.pc = IF gist_files(Head(s.data)) = <<>>
                                    THEN "for_gists" ELSE "for_files"])
        /\ UNCHANGED lists

\* the page is exhausted and carries a "next" link: the loop goes on with it
gists_next_link_in(p) ==
    LET s == frames[p]
    IN  /\ s.pc = "for_gists"
        /\ s.gen = "page"
        /\ s.data = <<>>
        /\ s.links # None
        /\ ~awaiting(s)
        /\ Step(p, [s EXCEPT !.next_page_url = s.links, !.gen = "loop"])
        /\ UNCHANGED lists

\* the page is exhausted and carries no "next" link: `raise StopIteration`,
\* which ends the loop of search or reaches it as a RuntimeError
gists_stop_in(p) ==
    LET s == frames[p]
    IN  /\ s.pc = "for_gists"
        /\ s.gen = "page"
        /\ s.data = <<>>
        /\ s.links = None
        /\ ~awaiting(s)
        /\ IF generator_stop
           THEN Step(p, [s EXCEPT !.gen = "closed", !.pc = "raised",
                                  !.error = Some(search_except(RuntimeError))])
           ELSE Step(p, [s EXCEPT !.gen = "closed", !.pc = "returned",
                                  !.result = Some(search_result_of(
                                                      s, lists[matches_of(p)]))])
        /\ UNCHANGED lists

\* extract_gist_files_content resumed: requests.get is called with the raw
\* URL of the next file
files_request_in(p) ==
    LET s == frames[p]
    IN  /\ s.pc = "for_files"
        /\ ~awaiting(s)
        /\ LET url == gist_files(s.gist[1])[s.file_idx].raw_url
           IN  Step(p, [s EXCEPT !.outstanding = Append(@, url),
                                 !.log = Append(@, Event("request", url, s, FALSE))])
        /\ UNCHANGED lists

\* the response to the file request is there: the status check, the text
\* tested, and a match recorded
files_response_in(p) ==
    LET s == frames[p]
    IN  /\ s.pc = "for_files"
        /\ s.outstanding # <<>>
        /\ Head(s.outstanding).kind = "raw"
        /\ LET url == Head(s.outstanding)
               response == remote[url]
               r == _make_request(response)
               matched == ~r.raised /\ regex_match(response.text, s.pattern)
               next == next_file(matched, s.file_idx, Len(gist_files(s.gist[1])))
               t == [s EXCEPT !.outstanding = Tail(@),
                              !.log = Append(@, Event("response", url, s, matched))]
           IN  IF r.raised
               THEN /\ Step(p, [t EXCEPT !.pc = "raised",
                                         !.error = Some(search_except(r.exc))])
                    /\ UNCHANGED lists
               ELSE /\ Step(p, [t EXCEPT !.file_idx = IF next = None THEN @ ELSE next[1],
                                         !.pc = IF next = None THEN "for_gists"
                                                ELSE "for_files"])
                    /\ lists' =
                           IF matched
                           THEN [lists EXCEPT ![matches_of(p)] =
                                    record_match(@, build_gist_human_url(
                                                        s.username, s.gist[1].id))]
                           ELSE lists

NextTwo ==
    \E p \in Searches :
        \/ search_validate_in(p)
        \/ gists_request_in(p)
        \/ gists_response_in(p)
        \/ gists_yield_in(p)
        \/ gists_next_link_in(p)
        \/ gists_stop_in(p)
        \/ files_request_in(p)
        \/ files_response_in(p)

SpecTwo == InitTwo /\ [][NextTwo]_vars

\* the thread that runs search keeps running: requests.get blocks until the
\* response or a failure is there, and nothing else in search waits
FairSpec == Spec /\ WF_vars(Next)

(* ------------------------------ properties ---------------------------- *)
NoDuplicates(s) == \A i, j \in DOMAIN s : i # j => s[i] # s[j]

\* the ids of the gists enumerated so far, in enumeration order
EnumeratedIds == Ids(enumerated)

\* the enumerated gists a file of which matched, in enumeration order
Hits == SelectSeq(enumerated, LAMBDA e : e.hit)

\* the human URL of an enumerated gist
Url(e) == build_gist_human_url(username, e.id)

\* a request was answered with a non-success HTTP status
HttpFailure == failed_response # None /\ failed_response[1].kind = "http"

\* the listing has a single page, with no gist and no "next" link, and the
\* enumeration went through it
ZeroGists ==
    received_pages = <<[items |-> <<>>, next |-> None]>> /\ gen = "closed"

\* C1: for a username whose listing is one successful empty page without a
\* "next" link, search completes without error and returns a success result
\* whose matches list is empty.
C1_ZeroGistsEmptySuccess ==
    ZeroGists =>
        /\ pc = "returned"
        /\ error = None
        /\ result # None
        /\ result[1].status = "success"
        /\ result[1].matches = <<>>

\* C2: the gists yielded, followed by the items of the current page still to
\* yield, are at every moment the concatenation of the pages received; when
\* the enumeration ends after N pages (a "next" link on pages 1..N-1, none on
\* page N) it has yielded the items of all N pages in page and within-page
\* order and issued exactly N page requests, the first for the initial URL of
\* the username and the (k+1)-th for the "next" link of page k.
C2_Enumeration ==
    /\ EnumeratedIds \o Ids(data) = Received
    /\ gen = "closed" =>
         LET N == Len(received_pages)
         IN  /\ N >= 1
             /\ EnumeratedIds = Received
             /\ Len(page_requests) = N
             /\ page_requests[1] = get_gists_url(username)
             /\ received_pages[N].next = None
             /\ \A k \in 1..(N - 1) :
                  /\ received_pages[k].next # None
                  /\ page_requests[k + 1] = received_pages[k].next[1]

\* two pages were enumerated to the end, with different gists
C2_Witness ==
    /\ gen = "closed"
    /\ Len(received_pages) = 2
    /\ Len(enumerated) = 2
    /\ enumerated[1].id # enumerated[2].id

\* C3: in the result of a successful search the matches are the URLs (web
\* base, username, gist id) of the enumerated gists with a matching file, one
\* entry for each such gist however many of its files match, and no entry for
\* a gist without a matching file.
C3_OneEntryPerMatchingGist ==
    pc = "returned" =>
        LET m == result[1].matches
        IN  /\ Len(m) = Cardinality({i \in DOMAIN enumerated : enumerated[i].hit})
            /\ \A i \in DOMAIN enumerated :
                 enumerated[i].hit => \E j \in DOMAIN m : m[j] = Url(enumerated[i])
            /\ \A j \in DOMAIN m :
                 \E i \in DOMAIN enumerated : enumerated[i].hit /\ m[j] = Url(enumerated[i])

\* a search returned after a gist with a matching file and a gist whose
\* files were fetched and did not match
C3_Witness ==
    /\ pc = "returned"
    /\ Len(enumerated) = 2
    /\ enumerated[1].hit
    /\ ~enumerated[2].hit
    /\ contents # <<>>

\* C4 as stated: in every state matches is the sequence of the URLs of the
\* matching gists in enumeration order, and it holds no duplicate entry.
C4_OrderedNoDuplicates ==
    /\ matches = [i \in DOMAIN Hits |-> Url(Hits[i])]
    /\ NoDuplicates(matches)

\* C4 as amended: in every state matches is the sequence of the URLs of the
\* matching gists in enumeration order, one entry for each enumerated gist
\* record that matched; it holds no duplicate entry whenever the enumerated
\* records have pairwise distinct ids.
C4_OrderedOnePerRecord ==
    /\ matches = [i \in DOMAIN Hits |-> Url(Hits[i])]
    /\ NoDuplicates(EnumeratedIds) => NoDuplicates(matches)

\* two different gists matched, the search still running or ended
C4_Witness == Len(matches) = 2 /\ matches[1] # matches[2]

\* C5: once a request has received a non-success HTTP response, the search
\* has ended with a GistError and has returned no result.
C5_HttpFailureAborts ==
    HttpFailure =>
        /\ pc = "raised"
        /\ result = None
        /\ error[1].type = "GistError"

\* C6: for validated inputs, a search that ends with an error ends with a
\* GistError.
C6_SingleTaxonomy ==
    (pc = "raised" /\ gen # "none") => error[1].type = "GistError"

\* C7: on a non-success HTTP response the search fails with a GistError whose
\* message is the `message` field of the body when the body is JSON carrying
\* one, and is absent otherwise.
C7_ErrorMessage ==
    HttpFailure =>
        LET body == failed_response[1].body
        IN  /\ pc = "raised"
            /\ error = Some(GistError(IF body.parse = "object" /\ "message" \in DOMAIN body.value
                                      THEN Some(body.value["message"])
                                      ELSE None))

\* C8: a successful metadata response whose body is no JSON array of gist
\* records makes the search fail with a GistError.
C8_MalformedBodyIsGistError ==
    malformed_body => (pc = "raised" /\ error[1].type = "GistError")

\* C9: the files of a gist are requested one at a time in listing order; no
\* file is requested after one that matched; and when search is done with
\* the gist the number of its file requests is the position of its first
\* matching file, or its file count when none matched.
C9_ShortCircuit ==
    gist # None =>
        LET files == gist_files(gist[1])
            n == Len(files)
            k == Len(file_requests)
        IN  /\ k <= n
            /\ \A i \in 1..k : file_requests[i] = files[i].raw_url
            /\ Len(contents) <= k
            /\ \A i \in 1..(Len(contents) - 1) : ~regex_match(contents[i], pattern)
            /\ pc = "for_files" =>
                 /\ file_idx = k + 1
                 /\ \A i \in 1..Len(contents) : ~regex_match(contents[i], pattern)
            /\ pc \in {"for_gists", "returned"} =>
                 /\ Len(contents) = k
                 /\ IF \E i \in 1..k : regex_match(contents[i], pattern)
                    THEN regex_match(contents[k], pattern)
                    ELSE k = n

\* search is done with a gist of two files after one request: the first
\* file matched
C9_Witness ==
    /\ gist # None
    /\ pc = "for_gists"
    /\ Len(gist_files(gist[1])) = 2
    /\ Len(file_requests) = 1
    /\ enumerated[Len(enumerated)].hit

\* C10 as stated: within one search no page URL and no file URL is requested
\* twice, and no request is issued after the first failed one.
C10_EachUrlOnce ==
    /\ NoDuplicates(page_requests)
    /\ ~repeated
    /\ requests_after_failure = 0

\* C10 as amended: within one search no page URL is requested twice, no file
\* entry of an enumerated gist record is requested twice, and the first failed
\* request ends the search: no request is issued after it.
C10_NoRetry ==
    /\ NoDuplicates(page_requests)
    /\ NoDuplicates(file_requests)
    /\ requests_after_failure = 0
    /\ failed_response # None => pc = "raised"

\* a request failed on the second page, after file requests had succeeded
C10_Witness ==
    /\ failed_response # None
    /\ Len(page_requests) = 2
    /\ requested # {}

\* C12: a missing or empty username, a missing or empty pattern, or a pattern
\* that does not compile ends search with a ValidationError, answered with
\* code 400 and the reason as message, before any remote request is issued;
\* a GistError is answered with code 500 and a message.
C12_ValidationOrRemote ==
    /\ (/\ pc # "request"
        /\ \/ post_username \in {PyNone, PyStr(<<>>)}
           \/ post_pattern \in {PyNone, PyStr(<<>>), PyStr(<<"(">>)})
       => /\ pc = "raised"
          /\ error[1].type = "ValidationError"
          /\ error[1].description # None
          /\ handle_exception(error[1]).code = 400
          /\ handle_exception(error[1]).message[3] = error[1].description
          /\ page_requests = <<>>
          /\ requested = {}
    /\ (error # None /\ error[1].type = "GistError")
       => /\ handle_exception(error[1]).code = 500
          /\ handle_exception(error[1]).message[1] = "Github gists error: "

\* a pattern that does not compile was refused, with no request issued
C12_Witness ==
    /\ pc = "raised"
    /\ error[1] = ValidationError(Some("Invalid pattern"))
    /\ page_requests = <<>>

\* C17: when search issues a remote request the validated username, which the
\* metadata URL and the result embed, is not empty; a posted username that
\* validation would turn into the empty string is refused with a
\* ValidationError.
C17_UsernameNotEmpty ==
    /\ gen # "none" => username # <<>>
    /\ \A k \in DOMAIN page_requests : page_requests[k].user # <<>>
    /\ (pc # "request" /\ post_username.type = "str" /\ strip(post_username.val) = <<>>)
       => (pc = "raised" /\ error[1].type = "ValidationError")

\* the gist record has no files entry, or an empty files mapping
NoFiles(g) == "files" \notin DOMAIN g \/ g.files = <<>>

\* C18: a gist without a files entry or with an empty files mapping causes
\* no raw-content request, adds no entry to matches and raises no error: the
\* step that yields it leaves search ready for the next gist, and while it is
\* the current gist no file request is issued for it.
C18_GistWithoutFiles ==
    /\ [](gist # None /\ NoFiles(gist[1]) =>
            /\ file_requests = <<>>
            /\ contents = <<>>
            /\ ~enumerated[Len(enumerated)].hit
            /\ pc # "for_files"
            /\ (pc = "for_gists" /\ data # <<>>) => ENABLED gists_yield)
    /\ [][(Len(enumerated') = Len(enumerated) + 1 /\ NoFiles(gist'[1])) =>
            /\ pc' = "for_gists"
            /\ error' = None
            /\ matches' = matches
            /\ requested' = requested
            /\ requests_after_failure' = requests_after_failure]_vars

\* a search returned after two gists, neither of which had a file to request
C18_Witness ==
    /\ pc = "returned"
    /\ Len(enumerated) = 2
    /\ gist # None /\ "files" \notin DOMAIN gist[1]
    /\ requested = {}

\* search is done with its current gist: a file matched, or every file of
\* it was fetched
GistDone ==
    gist # None =>
        \/ enumerated[Len(enumerated)].hit
        \/ Len(contents) = Len(gist_files(gist[1]))

\* the request that failed was a raw-content request
FileRequestFailed ==
    failed_response # None /\ Len(file_requests) > Len(contents)

\* C16: a page is requested only when search has fully processed every gist
\* of the pages received so far (all yielded, the last one done with); and
\* once a file request has failed, no page beyond those received has been
\* requested.
C16_LazyEnumeration ==
    /\ [][Len(page_requests') > Len(page_requests) =>
            /\ pc = "for_gists"
            /\ data = <<>>
            /\ EnumeratedIds = Received
            /\ GistDone
            /\ Len(page_requests) = Len(received_pages)]_vars
    /\ [](FileRequestFailed =>
            /\ pc = "raised"
            /\ Len(page_requests) = Len(received_pages))

\* a file request failed on the first page although the page carried a
\* "next" link: the second page was not requested
C16_Witness ==
    /\ FileRequestFailed
    /\ links # None
    /\ Len(page_requests) = 1

\* search has ended, with a result or with an error
Terminated == pc \in {"returned", "raised"}

\* the last page received carries no "next" link
CursorAbsent ==
    received_pages # <<>> /\ received_pages[Len(received_pages)].next = None

\* C15: with every request answered and a finite chain of "next" links,
\* search eventually ends, with a result or an error; a page without a "next"
\* link is the last one requested, the generator ends only on such a page
\* with all its gists enumerated, and such a page leads to the end.
C15_Termination ==
    /\ <>Terminated
    /\ [](\A k \in DOMAIN received_pages :
            received_pages[k].next = None =>
                k = Len(received_pages) /\ Len(page_requests) = k)
    /\ [](gen = "closed" => CursorAbsent /\ EnumeratedIds = Received /\ Terminated)
    /\ [](pc = "returned" => gen = "closed")
    /\ (CursorAbsent ~> Terminated)

\* search ended on the second page, the first to carry no "next" link, with
\* two files of a gist fetched on the way
C15_Witness ==
    /\ Terminated
    /\ gen = "closed"
    /\ Len(received_pages) = 2
    /\ received_pages[1].next # None
    /\ CursorAbsent
    /\ Len(contents) = 2

\* the number of characters the atoms before the j-th consume
Consumed(p, j) == Cardinality({k \in 1..(j - 1) : p[k] # "^"})

\* the pattern p matches the text c from position s on: every atom agrees
\* with the character it falls on, "^" with a line start
MatchesFrom(c, p, s) ==
    \A j \in DOMAIN p :
        LET i == s + Consumed(p, j)
        IN  IF p[j] = "^" THEN i = 1 \/ c[i - 1] = "\n"
            ELSE /\ i <= Len(c)
                 /\ IF p[j] = "." THEN c[i] # "\n" ELSE c[i] = p[j]

\* p matches c at some position after the first and not at the first
MatchesOnlyLater(c, p) ==
    /\ ~MatchesFrom(c, p, 1)
    /\ \E s \in 2..(Len(c) + 1) : MatchesFrom(c, p, s)

\* C13: every call of regex_match returns true exactly when the pattern
\* matches the content from its first character on: false when it matches
\* only from a later position, a later line start included; calls with the
\* same arguments return the same.
C13_AnchoredAtStart ==
    /\ \A k \in DOMAIN match_returns :
          match_returns[k] = MatchesFrom(match_content, match_pattern, 1)
    /\ MatchesOnlyLater(match_content, match_pattern) =>
          \A k \in DOMAIN match_returns : match_returns[k] = FALSE
    /\ \A k, l \in DOMAIN match_returns : match_returns[k] = match_returns[l]

\* "^a" on a text whose second line starts with "a": both calls returned false
C13_Witness ==
    /\ match_content = <<"b", "\n", "a">>
    /\ match_pattern = <<"^", "a">>
    /\ MatchesOnlyLater(match_content, match_pattern)
    /\ match_returns = <<FALSE, FALSE>>

\* the requests among the first n entries of a log
RequestsBefore(log, n) == {i \in 1..n : log[i].kind = "request"}
\* the responses among the first n entries of a log
ResponsesBefore(log, n) == {i \in 1..n : log[i].kind = "response"}

\* the gist yielded as the g-th is done with before the j-th entry of the
\* log: a file of it matched, or a response is there for every file of it
GistSettled(log, g, j) ==
    LET answers == {i \in ResponsesBefore(log, j - 1) :
                      log[i].url.kind = "raw" /\ log[i].gist_no = g}
    IN  \/ \E i \in answers : log[i].matched
        \/ \E i \in answers : Cardinality(answers) = log[i].files

\* C11: in every invocation at most one request is outstanding; a request
\* is sent only when every earlier request of the invocation has its
\* response; the page after the first is requested only after the response
\* to the page before it; and a file of a gist is requested only when the
\* gists enumerated before it are done with, by a match or by their last
\* file.
C11_StrictlySequential ==
    \A p \in DOMAIN frames :
        LET s == frames[p]
            log == s.log
        IN  /\ Len(s.outstanding) <= 1
            /\ \A j \in RequestsBefore(log, Len(log)) :
                 /\ Cardinality(RequestsBefore(log, j - 1))
                        = Cardinality(ResponsesBefore(log, j - 1))
                 /\ (log[j].url.kind = "gists" /\ log[j].url.page > 1) =>
                        \E i \in ResponsesBefore(log, j - 1) :
                            /\ log[i].url.kind = "gists"
                            /\ log[i].url.page = log[j].url.page - 1
                 /\ log[j].url.kind = "raw" =>
                        \A i \in RequestsBefore(log, j - 1) :
                            (log[i].url.kind = "raw" /\ log[i].gist_no # log[j].gist_no)
                                => /\ log[i].gist_no < log[j].gist_no
                                   /\ GistSettled(log, log[i].gist_no, j)

\* an invocation returned after two pages: the first gist was cut short by
\* a match on its first file, the second had both its files fetched; the
\* other invocation had started before
C11_Witness ==
    /\ frames # <<>>
    /\ frames["s1"].pc = "returned"
    /\ Len(frames["s1"].log) = 10
    /\ frames["s1"].log[4].matched
    /\ frames["s1"].overlaps

\* search run on its own against the service `world`: the files of a gist
\* from the i-th on, up to the first match
RECURSIVE SoloFiles(_, _, _, _)
SoloFiles(world, pat, files, i) ==
    IF i > Len(files) THEN Return(FALSE)
    ELSE LET r == _make_request(world[files[i].raw_url])
         IN  IF r.raised THEN Raise(search_except(r.exc))
             ELSE IF regex_match(r.value.text, pat) THEN Return(TRUE)
             ELSE SoloFiles(world, pat, files, i + 1)

\* the gists of a page, with the matches m found so far
RECURSIVE SoloGists(_, _, _, _, _)
SoloGists(world, user, pat, items, m) ==
    IF items = <<>> THEN Return(m)
    ELSE LET hit == SoloFiles(world, pat, gist_files(Head(items)), 1)
         IN  IF hit.raised THEN hit
             ELSE SoloGists(world, user, pat, Tail(items),
                            IF hit.value
                            THEN record_match(m, build_gist_human_url(user, Head(items).id))
                            ELSE m)

\* the pages from `url` on
RECURSIVE SoloPages(_, _, _, _, _, _)
SoloPages(world, stop, user, pat, url, m) ==
    LET r == _make_request(world[url])
    IN  IF r.raised THEN Raise(search_except(r.exc))
        ELSE LET found == SoloGists(world, user, pat, r.value.body.value, m)
             IN  IF found.raised THEN found
                 ELSE IF r.value.links # None
                      THEN SoloPages(world, stop, user, pat, r.value.links[1], found.value)
                 ELSE IF stop THEN Raise(search_except(RuntimeError))
                 ELSE Return([status |-> "success", username |-> user,
                              pattern |-> pat, matches |-> found.value])

\* what the invocation with the locals s returns or raises when it runs alone
Solo(s) ==
    SoloPages(remote, generator_stop, validate_username(s.post_username).value,
              validate_pattern(s.post_pattern).value,
              get_gists_url(validate_username(s.post_username).value), <<>>)

\* what the invocation with the locals s returned or raised
Outcome(s) == IF s.pc = "raised" THEN Raise(s.error[1]) ELSE Return(s.result[1])

\* C14: whatever the interleaving of two invocations against the same
\* remote responses, each starts its enumeration with the first page, and
\* each ends with the result, or the error, it ends with when it runs alone.
C14_NoInterference ==
    \A p \in DOMAIN frames :
        LET s == frames[p]
        IN  /\ s.log # <<>> => s.log[1].url = get_gists_url(s.username)
            /\ s.pc \in {"returned", "raised"} => Outcome(s) = Solo(s)

\* the second invocation started while the first was running; both
\* returned, with different matches
C14_Witness ==
    /\ frames # <<>>
    /\ frames["s2"].overlaps
    /\ frames["s1"].pc = "returned" /\ frames["s2"].pc = "returned"
    /\ frames["s1"].result[1].matches # <<>>
    /\ frames["s2"].result[1].matches # <<>>
    /\ frames["s1"].result[1].matches # frames["s2"].result[1].matches
====
